---- MODULE Spec2Model ----
(***************************************************************************)
(* Fashion Studio ETL pipeline: extraction (utils/extract.py),             *)
(* normalisation and validation (utils/transform.py), the CSV sink         *)
(* (utils/load.py) and the orchestrator (main.py).                         *)
(*                                                                         *)
(* Python values are tagged records, so that None, text and numbers can    *)
(* be compared with each other:                                            *)
(*   None             the absent value (None, and NaN in a DataFrame)      *)
(*   Str(s)           a str, s a TLA+ string                               *)
(*   PyBool(b)        True or False                                        *)
(*   PyInt(n)         an int                                               *)
(*   PyFloat(n, e)    the float n / 10^e, kept normalised (n has no        *)
(*                    trailing zero unless e = 0), so that equal floats    *)
(*                    are equal records.  Arithmetic is exact decimal      *)
(*                    arithmetic: IEEE rounding of float is not modelled.  *)
(* A DataFrame column holds values of one dtype, so an int is never        *)
(* compared with a float of the same value.                                *)
(* The star of "Rating: <star> 4.5 / 5" is written "*".                    *)
(***************************************************************************)
EXTENDS Integers, Sequences, FiniteSets, TLC

VARIABLES
    pc,                   \* position of the running function
    max_pages,            \* extract_fashion_data's max_pages argument
    mode,                 \* run_etl_pipeline's mode argument
    extraction_timestamp, \* extract.py:115
    page,                 \* loop variable of extract.py:117 (0: not yet bound)
    fetch_log,            \* history: one entry per fetch_webpage call
    all_products,         \* extract.py:114, the accumulator
    exc,                  \* the exception extract_fashion_data raised, or None
    raw_data,             \* main.py:47 / argument of transform_fashion_data
    transformed_df,       \* main.py:58 / result of transform_fashion_data
    file,                 \* the CSV file at output_file: None or its lines
    backups,              \* the backup files written so far (load.py:51-55)
    sink_log,             \* history: one entry per load_fashion_data call
    result,               \* what the entry point returned (None: nothing yet)
    arg,                  \* argument of a field normaliser / parser call
    ret                   \* its return value

vars == <<pc, max_pages, mode, extraction_timestamp, page, fetch_log,
          all_products, exc, raw_data, transformed_df, file, backups, sink_log,
          result, arg, ret>>

----------------------------------------------------------------------------
(* Python values *)

None == [t |-> "None"]

Str(s) == [t |-> "str", v |-> s]

PyInt(n) == [t |-> "int", n |-> n]

RECURSIVE PyFloat(_, _)
PyFloat(n, e) ==
    IF e > 0 /\ n % 10 = 0 THEN PyFloat(n \div 10, e - 1)
    ELSE [t |-> "float", n |-> n, e |-> e]

PyBool(b) == [t |-> "bool", v |-> b]

IsNone(x) == x.t = "None"

----------------------------------------------------------------------------
(* str methods, character by character *)

\* s[i], and "" beyond the ends of s
Char(s, i) == IF 1 <= i /\ i <= Len(s) THEN SubSeq(s, i, i) ELSE ""

Digits == "0123456789"

IsDigit(c) == \E d \in 1..10 : Char(Digits, d) = c

DigitVal(c) == (CHOOSE d \in 1..10 : Char(Digits, d) = c) - 1

\* str.isspace for one character (the ASCII whitespace the model uses)
IsSpace(c) == c = " "

LowerCase == "abcdefghijklmnopqrstuvwxyz"
UpperCase == "ABCDEFGHIJKLMNOPQRSTUVWXYZ"

UpperChar(c) ==
    IF \E k \in 1..26 : Char(LowerCase, k) = c
    THEN Char(UpperCase, CHOOSE k \in 1..26 : Char(LowerCase, k) = c)
    ELSE c

LowerChar(c) ==
    IF \E k \in 1..26 : Char(UpperCase, k) = c
    THEN Char(LowerCase, CHOOSE k \in 1..26 : Char(UpperCase, k) = c)
    ELSE c

RECURSIVE Upper(_)
Upper(s) == IF s = "" THEN "" ELSE UpperChar(Head(s)) \o Upper(Tail(s))

RECURSIVE Lower(_)
Lower(s) == IF s = "" THEN "" ELSE LowerChar(Head(s)) \o Lower(Tail(s))

RECURSIVE LStrip(_)
LStrip(s) == IF s # "" /\ IsSpace(Head(s)) THEN LStrip(Tail(s)) ELSE s

RECURSIVE RStrip(_)
RStrip(s) ==
    IF s # "" /\ IsSpace(Char(s, Len(s)))
    THEN RStrip(SubSeq(s, 1, Len(s) - 1))
    ELSE s

Strip(s) == RStrip(LStrip(s))

StartsWith(s, p) == Len(s) >= Len(p) /\ SubSeq(s, 1, Len(p)) = p

\* Python's "sub in s"
Contains(s, sub) ==
    \E i \in 1..(Len(s) - Len(sub) + 1) : SubSeq(s, i, i + Len(sub) - 1) = sub

\* str.replace(old, new): leftmost, non-overlapping occurrences (old # "")
RECURSIVE Replace(_, _, _)
Replace(s, old, new) ==
    IF s = "" THEN ""
    ELSE IF StartsWith(s, old)
         THEN new \o Replace(SubSeq(s, Len(old) + 1, Len(s)), old, new)
         ELSE Head(s) \o Replace(Tail(s), old, new)

\* the value of a run of decimal digits
RECURSIVE DigitsValue(_)
DigitsValue(s) ==
    IF s = "" THEN 0
    ELSE 10 * DigitsValue(SubSeq(s, 1, Len(s) - 1)) + DigitVal(Char(s, Len(s)))

\* the end (inclusive) of the maximal run of digits of s that starts at i;
\* i - 1 when s has no digit at i
RECURSIVE DigitRunEnd(_, _)
DigitRunEnd(s, i) ==
    IF i <= Len(s) /\ IsDigit(Char(s, i)) THEN DigitRunEnd(s, i + 1) ELSE i - 1

\* the end (inclusive) of the maximal run of whitespace of s from i
RECURSIVE SpaceRunEnd(_, _)
SpaceRunEnd(s, i) ==
    IF i <= Len(s) /\ IsSpace(Char(s, i)) THEN SpaceRunEnd(s, i + 1) ELSE i - 1

\* float() of a text of the shape digits [ "." [digits] ]
FloatOf(s) ==
    LET d == DigitRunEnd(s, 1)
        frac == IF d < Len(s) THEN SubSeq(s, d + 2, Len(s)) ELSE ""
    IN  PyFloat(DigitsValue(SubSeq(s, 1, d) \o frac), Len(frac))

----------------------------------------------------------------------------
(* utils/transform.py: the field normalisers *)

USD_TO_IDR_RATE == 16000

\* re.search(r'[\d,]+\.?\d*', s) for a text s without commas: the leftmost
\* digit starts the match, which takes the maximal run of digits, then a
\* "." if one follows, then the maximal run of digits.  None: no match.
PriceSearch(s) ==
    IF \A i \in 1..Len(s) : ~IsDigit(Char(s, i)) THEN None
    ELSE LET i == CHOOSE k \in 1..Len(s) :
                      /\ IsDigit(Char(s, k))
                      /\ \A j \in 1..(k - 1) : ~IsDigit(Char(s, j))
             d == DigitRunEnd(s, i)
             e == IF Char(s, d + 1) = "." THEN DigitRunEnd(s, d + 2) ELSE d
         IN  Str(SubSeq(s, i, e))

\* float * int
Times(x, k) == PyFloat(x.n * k, x.e)

clean_price_commas_kept(price_str) ==
    IF IsNone(price_str) \/ price_str.v = "" \/ price_str.v = "Price Unavailable"
    THEN PyFloat(0, 0)
    ELSE LET price_match == PriceSearch(Replace(price_str.v, ",", " "))
         IN  IF IsNone(price_match) THEN PyFloat(0, 0)
             ELSE Times(FloatOf(price_match.v), USD_TO_IDR_RATE)

clean_price(price_str) ==
    IF IsNone(price_str) \/ price_str.v = "" \/ price_str.v = "Price Unavailable"
    THEN PyFloat(0, 0)
    ELSE LET price_match == PriceSearch(Replace(price_str.v, ",", ""))
         IN  IF IsNone(price_match) THEN PyFloat(0, 0)
             ELSE Times(FloatOf(price_match.v), USD_TO_IDR_RATE)

\* One attempt of r'(\d+\.?\d*)\s*/\s*(\d+)' at position i of s: the end of
\* group 1 when the pattern matches there, 0 when it does not.  Backtracking
\* finds no other match from i: a shorter group 1 is followed by a digit or
\* by the "." it gave up, never by whitespace or "/".
RatingMatchAt(s, i) ==
    IF ~IsDigit(Char(s, i)) THEN 0
    ELSE LET d  == DigitRunEnd(s, i)
             g  == IF Char(s, d + 1) = "." THEN DigitRunEnd(s, d + 2) ELSE d
             w1 == SpaceRunEnd(s, g + 1)
             w2 == SpaceRunEnd(s, w1 + 2)
         IN  IF Char(s, w1 + 1) = "/" /\ w2 + 1 <= Len(s) /\ IsDigit(Char(s, w2 + 1))
             THEN g ELSE 0

\* re.search: the leftmost position where the pattern matches; group 1
RatingSearch(s) ==
    IF \A i \in 1..Len(s) : RatingMatchAt(s, i) = 0 THEN None
    ELSE LET i == CHOOSE k \in 1..Len(s) :
                      /\ RatingMatchAt(s, k) # 0
                      /\ \A j \in 1..(k - 1) : RatingMatchAt(s, j) = 0
         IN  Str(SubSeq(s, i, RatingMatchAt(s, i)))

clean_rating_invalid_unhandled(rating_str) ==
    IF IsNone(rating_str) \/ rating_str.v = "" \/ rating_str.v = "Not Rated"
    THEN None
    ELSE LET rating_match == RatingSearch(rating_str.v)
         IN  IF IsNone(rating_match) THEN None ELSE FloatOf(rating_match.v)

clean_rating(rating_str) ==
    IF IsNone(rating_str) \/ rating_str.v = "" \/ rating_str.v = "Not Rated"
    THEN None
    ELSE IF Contains(rating_str.v, "Invalid Rating") THEN None
    ELSE LET rating_match == RatingSearch(rating_str.v)
         IN  IF IsNone(rating_match) THEN None ELSE FloatOf(rating_match.v)

\* int(text): surrounding whitespace is ignored, one sign is allowed, and
\* single underscores may separate the digits; None stands for ValueError
IntOf(text) ==
    LET s    == Strip(text)
        neg  == s # "" /\ Head(s) = "-"
        body == IF s # "" /\ Head(s) \in {"-", "+"} THEN Tail(s) ELSE s
        ok   == /\ body # ""
                /\ \A i \in 1..Len(body) : IsDigit(Char(body, i)) \/ Char(body, i) = "_"
                /\ Head(body) # "_"
                /\ Char(body, Len(body)) # "_"
                /\ ~Contains(body, "__")
        n    == DigitsValue(Replace(body, "_", ""))
    IN  IF ok THEN PyInt(IF neg THEN 0 - n ELSE n) ELSE None

clean_colors_zero_absent(colors_str) ==
    IF IsNone(colors_str) \/ colors_str.v = "" \/ colors_str.v = "0" THEN None
    ELSE IntOf(colors_str.v)

clean_colors(colors_str) ==
    IF IsNone(colors_str) \/ colors_str.v = "" THEN None
    ELSE IntOf(colors_str.v)

size_mapping == {"XS", "S", "M", "L", "XL", "XXL"}

standardize_size(size_str) ==
    IF IsNone(size_str) \/ size_str.v = "" \/ size_str.v = "Unknown" THEN None
    ELSE LET clean_size == Strip(Upper(size_str.v))
         IN  IF clean_size \in size_mapping THEN Str(clean_size) ELSE None

gender_mapping == {<<"MEN", "Men">>, <<"WOMEN", "Women">>, <<"UNISEX", "Unisex">>}

standardize_gender_uppercased(gender_str) ==
    IF IsNone(gender_str) \/ gender_str.v = "" \/ gender_str.v = "Unknown" THEN None
    ELSE LET clean_gender == Strip(Upper(gender_str.v))
         IN  IF \E m \in gender_mapping : m[1] = clean_gender
             THEN Str(clean_gender)
             ELSE None

standardize_gender(gender_str) ==
    IF IsNone(gender_str) \/ gender_str.v = "" \/ gender_str.v = "Unknown" THEN None
    ELSE LET clean_gender == Strip(Upper(gender_str.v))
         IN  IF \E m \in gender_mapping : m[1] = clean_gender
             THEN Str((CHOOSE m \in gender_mapping : m[1] = clean_gender)[2])
             ELSE None

invalid_titles == {"unknown product", "unknown", ""}

is_valid_title_untrimmed(title) ==
    IF IsNone(title) \/ title.v = "" THEN FALSE
    ELSE Lower(title.v) \notin invalid_titles

is_valid_title(title) ==
    IF IsNone(title) \/ title.v = "" THEN FALSE
    ELSE Strip(Lower(title.v)) \notin invalid_titles

----------------------------------------------------------------------------
(* utils/transform.py: transform_fashion_data.  A DataFrame is the sequence *)
(* of its rows; a row is a record of its columns.                           *)

\* transform.py:167-171, one row
NormaliseRow(r) ==
    [title     |-> r.title,
     price     |-> clean_price(r.price),
     rating    |-> clean_rating(r.rating),
     colors    |-> clean_colors(r.colors),
     size      |-> standardize_size(r.size),
     gender    |-> standardize_gender(r.gender),
     timestamp |-> r.timestamp]

\* transform.py:177
TitleFilter(r) == is_valid_title(r.title)

\* transform.py:180 with a count of zero taken as absent
NoAbsentValueNorZero(r) ==
    /\ \A c \in {"title", "price", "rating", "colors", "size", "gender"} : ~IsNone(r[c])
    /\ r.colors.n # 0

\* transform.py:180, dropna(subset = ...)
NoAbsentValue(r) ==
    \A c \in {"title", "price", "rating", "colors", "size", "gender"} : ~IsNone(r[c])

\* transform.py:183
PositivePrice(r) == r.price.n > 0

\* the subset of drop_duplicates (transform.py:186, load.py:128)
KeyOf(r) == <<r.title, r.price, r.size, r.gender>>

\* DataFrame.drop_duplicates(subset = key, keep = 'last')
DropDuplicatesKeepLast(df) ==
    SelectSeq([i \in 1..Len(df) |-> [i |-> i, r |-> df[i]]],
              LAMBDA x : \A j \in (x.i + 1)..Len(df) : KeyOf(df[j]) # KeyOf(x.r))

\* DataFrame.drop_duplicates(subset = key, keep = 'first')
DropDuplicatesKeepFirst(df) ==
    SelectSeq([i \in 1..Len(df) |-> [i |-> i, r |-> df[i]]],
              LAMBDA x : \A j \in 1..(x.i - 1) : KeyOf(df[j]) # KeyOf(x.r))

Rows(indexed) == [i \in 1..Len(indexed) |-> indexed[i].r]

\* transform.py:173-183 without the price filter
ValidRowsPriceUnchecked(df) ==
    SelectSeq(SelectSeq(df, TitleFilter), NoAbsentValue)

\* transform.py:173-183, the three validity filters in the code's order
ValidRows(df) ==
    SelectSeq(SelectSeq(SelectSeq(df, TitleFilter), NoAbsentValue), PositivePrice)

\* transform.py:186 with keep = 'last'
DedupRowsKeepLast(df) == Rows(DropDuplicatesKeepLast(df))

\* transform.py:186 on the rows in reverse order
DedupRowsNewestFirst(df) ==
    LET kept == Rows(DropDuplicatesKeepFirst(df))
    IN  [i \in 1..Len(kept) |-> kept[Len(kept) + 1 - i]]

\* transform.py:186-189, drop_duplicates(keep = 'first') and reset_index
DedupRows(df) == Rows(DropDuplicatesKeepFirst(df))

\* int -> float64, what pandas does to the ints of a column that holds NaN
AsFloat(x) == IF x.t = "int" THEN PyFloat(x.n, 0) ELSE x

\* The dtype of the column that Series.apply builds (transform.py:169): a
\* column of ints is int64, a column of ints and None is float64 with NaN.
InferColumn(df, c) ==
    IF \E i \in 1..Len(df) : IsNone(df[i][c])
    THEN [i \in 1..Len(df) |-> [df[i] EXCEPT ![c] = AsFloat(@)]]
    ELSE df

\* transform.py:147-194 with the duplicates dropped before the filters
transform_fashion_data_dedup_first(raw) ==
    IF raw = <<>> THEN <<>>
    ELSE ValidRows(DedupRows(
             InferColumn([i \in 1..Len(raw) |-> NormaliseRow(raw[i])], "colors")))

\* transform.py:147-194; the empty DataFrame is the empty sequence
transform_fashion_data(raw) ==
    IF raw = <<>> THEN <<>>
    ELSE DedupRows(ValidRows(
             InferColumn([i \in 1..Len(raw) |-> NormaliseRow(raw[i])], "colors")))

\* The index of a DataFrame.  pd.DataFrame(raw_data) (transform.py:164)
\* labels its rows 0, 1, ...; filtering keeps a row's label.
RangeIndex(df) ==
    [i \in 1..Len(df) |->
        [c \in DOMAIN df[i] \cup {"index"} |->
            IF c = "index" THEN PyInt(i - 1) ELSE df[i][c]]]

reset_index_skipped(df) == df

\* transform.py:189, reset_index(drop = True)
reset_index(df) == [i \in 1..Len(df) |-> [df[i] EXCEPT !.index = PyInt(i - 1)]]

\* the index labels of the DataFrame that transform_fashion_data returns
transform_index(raw) ==
    IF raw = <<>> THEN <<>>
    ELSE LET df == reset_index(DedupRows(ValidRows(RangeIndex(
                       InferColumn([i \in 1..Len(raw) |-> NormaliseRow(raw[i])], "colors")))))
         IN  [i \in 1..Len(df) |-> df[i].index]

----------------------------------------------------------------------------
(* utils/extract.py: parse_product_data.  BeautifulSoup's view of a page is *)
(* the sequence of its collection-card elements; of a card, the text of its *)
(* first h3.product-title (None: no such element), of its first span.price, *)
(* and its p elements in document order, each with whether its style        *)
(* attribute contains 'font-size: 14px'.                                    *)

ProductKeys == {"title", "price", "rating", "colors", "size", "gender", "timestamp"}

\* extract.py:84-85
ColorsOf(text) ==
    LET hits == {i \in 1..Len(text) :
                    /\ IsDigit(Char(text, i))
                    /\ LET d == DigitRunEnd(text, i)
                           w == SpaceRunEnd(text, d + 1)
                       IN  w > d /\ StartsWith(SubSeq(text, w + 1, Len(text)), "Colors")}
    IN  IF hits = {} THEN "0"
        ELSE LET i == CHOOSE k \in hits : \A j \in hits : k <= j
             IN  SubSeq(text, i, DigitRunEnd(text, i))

\* extract.py:80-89, one descriptor paragraph
DescriptorLine(product, ptext) ==
    LET text == Strip(ptext)
    IN  IF StartsWith(text, "Rating:")
        THEN [product EXCEPT !.rating = Str(Strip(Replace(text, "Rating: ", "")))]
        ELSE IF Contains(text, "Colors")
        THEN [product EXCEPT !.colors = Str(ColorsOf(text))]
        ELSE IF StartsWith(text, "Size:")
        THEN [product EXCEPT !.size = Str(Strip(Replace(text, "Size: ", "")))]
        ELSE IF StartsWith(text, "Gender:")
        THEN [product EXCEPT !.gender = Str(Strip(Replace(text, "Gender: ", "")))]
        ELSE product

RECURSIVE DescriptorLines(_, _)
DescriptorLines(product, texts) ==
    IF texts = <<>> THEN product
    ELSE DescriptorLines(DescriptorLine(product, Head(texts)), Tail(texts))

\* extract.py:72
detail_paragraphs(card) ==
    LET styled == SelectSeq(card.paragraphs, LAMBDA p : p.styled)
    IN  [i \in 1..Len(styled) |-> styled[i].text]

\* extract.py:57-77 with the price default forgotten
CardDefaultsNoPrice(card, timestamp) ==
    [title     |-> IF IsNone(card.title) THEN Str("Unknown") ELSE Str(Strip(card.title.v)),
     price     |-> IF IsNone(card.price) THEN None ELSE Str(Strip(card.price.v)),
     rating    |-> Str("Not Rated"),
     colors    |-> Str("0"),
     size      |-> Str("Unknown"),
     gender    |-> Str("Unknown"),
     timestamp |-> timestamp]

\* extract.py:57-77 and 92: title, price, the four defaults, the timestamp
CardDefaults(card, timestamp) ==
    [title     |-> IF IsNone(card.title) THEN Str("Unknown") ELSE Str(Strip(card.title.v)),
     price     |-> IF IsNone(card.price) THEN Str("Price Unavailable")
                   ELSE Str(Strip(card.price.v)),
     rating    |-> Str("Not Rated"),
     colors    |-> Str("0"),
     size      |-> Str("Unknown"),
     gender    |-> Str("Unknown"),
     timestamp |-> timestamp]

\* extract.py:56-94 with a time taken per card
ParseCardOwnTime(card, timestamp) ==
    DescriptorLines(CardDefaults(card, Str("later")), detail_paragraphs(card))

\* extract.py:56-94, one card
ParseCard(card, timestamp) ==
    DescriptorLines(CardDefaults(card, timestamp), detail_paragraphs(card))

\* "not html_content": None or the empty text
Falsy(html_content) ==
    IsNone(html_content) \/ (html_content.t = "str" /\ html_content.v = "")

\* extract.py:36-96
parse_product_data(html_content, timestamp) ==
    IF Falsy(html_content) THEN <<>>
    ELSE [i \in 1..Len(html_content.cards) |-> ParseCard(html_content.cards[i], timestamp)]

\* a non-empty page text, as BeautifulSoup sees it
Html(cards) == [t |-> "html", cards |-> cards]

----------------------------------------------------------------------------
(* utils/load.py.  A CSV file is the sequence of its data lines under the   *)
(* header of the seven columns, a line the record of its cells' texts (csv  *)
(* quoting restores a text as it was written).  DataFrame.to_csv and        *)
(* pandas.read_csv are modelled for cells made of digits, letters, "-",     *)
(* "+", "." and spaces: read_csv infers a column's dtype from its texts.    *)

RECURSIVE NatToStr(_)
NatToStr(n) ==
    IF n < 10 THEN Char(Digits, n + 1)
    ELSE NatToStr(n \div 10) \o Char(Digits, (n % 10) + 1)

IntToStr(n) == IF n < 0 THEN "-" \o NatToStr(0 - n) ELSE NatToStr(n)

RECURSIVE Pow10(_)
Pow10(e) == IF e = 0 THEN 1 ELSE 10 * Pow10(e - 1)

RECURSIVE ZeroPad(_, _)
ZeroPad(s, w) == IF Len(s) >= w THEN s ELSE ZeroPad("0" \o s, w)

\* repr(float), positional notation
FloatToStr(x) ==
    LET a == IF x.n < 0 THEN 0 - x.n ELSE x.n
    IN  (IF x.n < 0 THEN "-" ELSE "")
        \o NatToStr(a \div Pow10(x.e)) \o "."
        \o (IF x.e = 0 THEN "0" ELSE ZeroPad(NatToStr(a % Pow10(x.e)), x.e))

\* one cell as to_csv writes it; NaN and None are written as the empty text
FormatCell(v) ==
    CASE v.t = "None"  -> ""
      [] v.t = "str"   -> v.v
      [] v.t = "int"   -> IntToStr(v.n)
      [] v.t = "float" -> FloatToStr(v)

\* DataFrame.to_csv(path, index=False)
to_csv(df) == [i \in 1..Len(df) |-> [c \in ProductKeys |-> FormatCell(df[i][c])]]

\* pandas' default na_values
na_values ==
    {"", "#N/A", "#N/A N/A", "#NA", "-1.#IND", "-1.#QNAN", "-NaN", "-nan",
     "1.#IND", "1.#QNAN", "<NA>", "N/A", "NA", "NULL", "NaN", "None", "n/a",
     "nan", "null"}

Unsigned(s) == IF s # "" /\ Head(s) \in {"-", "+"} THEN Tail(s) ELSE s

IsIntText(s) ==
    LET b == Unsigned(s)
    IN  b # "" /\ \A i \in 1..Len(b) : IsDigit(Char(b, i))

IsFloatText(s) ==
    LET b == Unsigned(s)
        d == DigitRunEnd(b, 1)
        e == IF Char(b, d + 1) = "." THEN DigitRunEnd(b, d + 2) ELSE d
    IN  /\ e = Len(b)
        /\ \E i \in 1..Len(b) : IsDigit(Char(b, i))

ParseFloat(s) ==
    LET x == FloatOf(Unsigned(s))
    IN  IF Head(s) = "-" THEN PyFloat(0 - x.n, x.e) ELSE x

ParseInt(s) ==
    LET n == DigitsValue(Unsigned(s))
    IN  PyInt(IF Head(s) = "-" THEN 0 - n ELSE n)

\* read_csv's type inference for one column, from the texts of its cells
ReadColumn(cells) ==
    LET present == {i \in 1..Len(cells) : cells[i] \notin na_values}
    IN  IF \A i \in present : IsIntText(cells[i])
        THEN IF present = 1..Len(cells)
             THEN [i \in 1..Len(cells) |-> ParseInt(cells[i])]
             ELSE [i \in 1..Len(cells) |->
                      IF i \in present THEN AsFloat(ParseInt(cells[i])) ELSE None]
        ELSE IF \A i \in present : IsFloatText(cells[i])
        THEN [i \in 1..Len(cells) |->
                 IF i \in present THEN ParseFloat(cells[i]) ELSE None]
        ELSE [i \in 1..Len(cells) |->
                 IF i \in present THEN Str(cells[i]) ELSE None]

\* pandas.read_csv(file_path)
read_csv(lines) ==
    LET column == [c \in ProductKeys |-> ReadColumn([j \in 1..Len(lines) |-> lines[j][c]])]
    IN  [i \in 1..Len(lines) |-> [c \in ProductKeys |-> column[c][i]]]

\* The common dtype of a concatenated column: ints meeting floats or NaN
\* become floats; a column that holds a str is an object column and keeps
\* every value as it is.
UpcastColumn(df, c) ==
    IF /\ \A i \in 1..Len(df) : df[i][c].t # "str"
       /\ \E i \in 1..Len(df) : df[i][c].t \in {"float", "None"}
    THEN [i \in 1..Len(df) |-> [df[i] EXCEPT ![c] = AsFloat(@)]]
    ELSE df

RECURSIVE UpcastColumns(_, _)
UpcastColumns(df, cols) ==
    IF cols = {} THEN df
    ELSE LET c == CHOOSE x \in cols : TRUE
         IN  UpcastColumns(UpcastColumn(df, c), cols \ {c})

\* pd.concat([existing_df, df], ignore_index=True)
concat(existing_df, df) == UpcastColumns(existing_df \o df, ProductKeys)

\* load.py:12-33; every DataFrame of the model has the required columns
validate_dataframe(df) == df # <<>>

\* load.py:36-61: the backup is the file read and written again; a file that
\* does not exist leaves no backup
create_backup(f, bk) == IF IsNone(f) THEN bk ELSE Append(bk, to_csv(read_csv(f.lines)))

CsvFile(lines) == [t |-> "file", lines |-> lines]

\* The sink's outcome: what it returned, the file and the backups it left.
\* io_ok = FALSE: writing the target raised (load.py:98, load.py:144).
Outcome(ok, f, bk) == [ok |-> ok, file |-> f, backups |-> bk]

\* load.py:64-100
save_to_csv(df, f, bk, create_backup_flag, io_ok) ==
    IF ~validate_dataframe(df) THEN Outcome(FALSE, f, bk)
    ELSE LET bk2 == IF create_backup_flag THEN create_backup(f, bk) ELSE bk
         IN  IF io_ok THEN Outcome(TRUE, CsvFile(to_csv(df)), bk2)
             ELSE Outcome(FALSE, f, bk2)

\* load.py:119-136 with keep = 'first'
CombineKeepFirst(existing_df, df) == Rows(DropDuplicatesKeepFirst(concat(existing_df, df)))

\* load.py:123-130
Combine(existing_df, df) == Rows(DropDuplicatesKeepLast(concat(existing_df, df)))

\* load.py:103-146
append_to_csv(df, f, bk, io_ok) ==
    IF ~validate_dataframe(df) THEN Outcome(FALSE, f, bk)
    ELSE IF ~IsNone(f)
         THEN IF io_ok
              THEN Outcome(TRUE, CsvFile(to_csv(Combine(read_csv(f.lines), df))), bk)
              ELSE Outcome(FALSE, f, bk)
         ELSE save_to_csv(df, f, bk, FALSE, io_ok)

\* load.py:186-235
load_fashion_data(df, f, bk, md, io_ok) ==
    IF md = "append" THEN append_to_csv(df, f, bk, io_ok)
    ELSE save_to_csv(df, f, bk, TRUE, io_ok)

----------------------------------------------------------------------------
(* utils/extract.py: extract_fashion_data, one action per loop iteration *)

MaxPages == 3

\* what a page of the catalogue may hold
Para(text) == [styled |-> TRUE, text |-> text]

CardTee ==
    [title |-> Str("Tee"), price |-> Str("$25.99"),
     paragraphs |-> <<Para("Rating: * 4.5 / 5"), Para("3 Colors"),
                      Para("Size: M"), Para("Gender: Men")>>]

\* the key of CardTee, another rating and number of colours
CardTeeAgain ==
    [title |-> Str(" Tee "), price |-> Str("$25.990"),
     paragraphs |-> <<Para("Rating: * 3.9 / 5"), Para("5 Colors"),
                      Para("Size: m"), Para("Gender: men")>>]

\* the card of test_parse_product_data_missing_fields
CardCap == [title |-> Str("Cap"), price |-> None, paragraphs |-> <<>>]

CardHat ==
    [title |-> Str("Hat"), price |-> Str("$1,234.56"),
     paragraphs |-> <<Para("Rating: * 4.8 / 5"), Para("Size: XL"),
                      Para("Gender: Women")>>]

Pages == {<<CardTee>>, <<CardTeeAgain, CardHat>>, <<CardCap>>}

\* fetch_webpage (extract.py:14-33): None on a RequestException, else
\* response.text, which may be empty or hold no card
FetchResults == {None, Str(""), Html(<<>>)} \cup {Html(p) : p \in Pages}

Timestamps == {Str("t1"), Str("t2")}

\* extract.py:117, range(1, max_pages + 1) is exhausted after page pg
RangeExhaustedLate(pg, mp) == pg >= mp + 1

RangeExhausted(pg, mp) == pg >= mp

\* extract.py:128-140 with a failed fetch ending the loop
LoopBodyFailureBreaks(html_content, page_products, acc) ==
    IF Falsy(html_content) THEN [pc |-> "break", all_products |-> acc]
    ELSE IF page_products = <<>> THEN [pc |-> "break", all_products |-> acc]
    ELSE [pc |-> "loop", all_products |-> acc \o page_products]

\* extract.py:128-140 with the empty page skipped like a failed fetch
LoopBodyNoBreak(html_content, page_products, acc) ==
    IF Falsy(html_content) THEN [pc |-> "loop", all_products |-> acc]
    ELSE IF page_products = <<>> THEN [pc |-> "loop", all_products |-> acc]
    ELSE [pc |-> "loop", all_products |-> acc \o page_products]

\* extract.py:128-140 with the page's records put in front
LoopBodyPrepends(html_content, page_products, acc) ==
    IF Falsy(html_content) THEN [pc |-> "loop", all_products |-> acc]
    ELSE IF page_products = <<>> THEN [pc |-> "break", all_products |-> acc]
    ELSE [pc |-> "loop", all_products |-> page_products \o acc]

\* extract.py:128-140 with "html_content is None" for "not html_content"
LoopBodyOnlyNoneSkipped(html_content, page_products, acc) ==
    IF IsNone(html_content) THEN [pc |-> "loop", all_products |-> acc]
    ELSE IF page_products = <<>> THEN [pc |-> "break", all_products |-> acc]
    ELSE [pc |-> "loop", all_products |-> acc \o page_products]

\* extract.py:128-140: continue, break, or extend and go on
LoopBody(html_content, page_products, acc) ==
    IF Falsy(html_content) THEN [pc |-> "loop", all_products |-> acc]
    ELSE IF page_products = <<>> THEN [pc |-> "break", all_products |-> acc]
    ELSE [pc |-> "loop", all_products |-> acc \o page_products]

\* extract.py:117-144, one iteration: the next page is fetched and parsed
FetchPage ==
    /\ pc = "loop"
    /\ ~RangeExhausted(page, max_pages)
    /\ \E html_content \in FetchResults :
          LET page_products == parse_product_data(html_content, extraction_timestamp)
              after == LoopBody(html_content, page_products, all_products)
          IN  /\ page' = page + 1
              /\ fetch_log' = Append(fetch_log,
                     [page |-> page + 1, html |-> html_content,
                      products |-> page_products, before |-> all_products])
              /\ pc' = after.pc
              /\ all_products' = after.all_products
    /\ UNCHANGED <<max_pages, mode, extraction_timestamp, exc, raw_data,
                   transformed_df, file, backups, sink_log, result, arg, ret>>

\* extract.py:146-147: the summary line reads the loop variable, which is
\* unbound when the loop body never ran (page = 0)
ExtractReturn ==
    /\ \/ pc = "break"
       \/ pc = "loop" /\ RangeExhausted(page, max_pages)
    /\ IF page = 0
       THEN exc' = Str("UnboundLocalError") /\ UNCHANGED raw_data
       ELSE raw_data' = all_products /\ UNCHANGED exc
    /\ pc' = "extracted"
    /\ UNCHANGED <<max_pages, mode, extraction_timestamp, page, fetch_log,
                   all_products, transformed_df, file, backups, sink_log,
                   result, arg, ret>>

----------------------------------------------------------------------------
(* main.py: run_etl_pipeline *)

\* a file that an earlier run left at output_file
OldLines ==
    <<[title |-> "Tee", price |-> "415840.0", rating |-> "4.0", colors |-> "2",
       size |-> "M", gender |-> "Men", timestamp |-> "t0"],
      [title |-> "Sock", price |-> "16000.0", rating |-> "3.5", colors |-> "1",
       size |-> "S", gender |-> "Unisex", timestamp |-> "t0"]>>

InitialFiles == {None, CsvFile(OldLines)}

Modes == {"overwrite", "append"}

\* main.py:60 with the check left out
ProceedsToLoadAlways(df) == TRUE

\* main.py:60, "if transformed_df.empty: return False"
ProceedsToLoad(df) == df # <<>>

\* main.py:43-64 and the except clause of main.py:88-91: what follows the
\* call of extract_fashion_data, up to the decision to load
Transform ==
    /\ pc = "extracted"
    /\ IF ~IsNone(exc) \/ raw_data = <<>>
       THEN /\ result' = PyBool(FALSE)
            /\ pc' = "done"
            /\ UNCHANGED transformed_df
       ELSE LET df == transform_fashion_data(raw_data)
            IN  /\ transformed_df' = df
                /\ IF ProceedsToLoad(df)
                   THEN pc' = "load" /\ UNCHANGED result
                   ELSE pc' = "done" /\ result' = PyBool(FALSE)
    /\ UNCHANGED <<max_pages, mode, extraction_timestamp, page, fetch_log,
                   all_products, exc, raw_data, file, backups, sink_log, arg, ret>>

\* main.py:66-86: load_fashion_data is called; its exceptions are caught
\* inside it (load.py:98, load.py:144)
Load ==
    /\ pc = "load"
    /\ \E io_ok \in BOOLEAN :
          LET out == load_fashion_data(transformed_df, file, backups, mode, io_ok)
          IN  /\ file' = out.file
              /\ backups' = out.backups
              /\ result' = PyBool(out.ok)
              /\ sink_log' = Append(sink_log,
                     [df |-> transformed_df, mode |-> mode, before |-> file,
                      ok |-> out.ok])
    /\ pc' = "done"
    /\ UNCHANGED <<max_pages, mode, extraction_timestamp, page, fetch_log,
                   all_products, exc, raw_data, transformed_df, arg, ret>>

MaxRunPages == 2

\* run_etl_pipeline is called: extract.py:114-115 have run
Init ==
    /\ pc = "loop"
    /\ max_pages \in 0..MaxRunPages
    /\ mode \in Modes
    /\ extraction_timestamp \in Timestamps
    /\ page = 0
    /\ fetch_log = <<>>
    /\ all_products = <<>>
    /\ exc = None
    /\ raw_data = <<>>
    /\ transformed_df = <<>>
    /\ file \in InitialFiles
    /\ backups = <<>>
    /\ sink_log = <<>>
    /\ result = None
    /\ arg = None
    /\ ret = None

Next == FetchPage \/ ExtractReturn \/ Transform \/ Load

Spec == Init /\ [][Next]_vars

\* extract_fashion_data is called on its own: extract.py:114-115 have run
InitExtract ==
    /\ pc = "loop"
    /\ max_pages \in 0..MaxPages
    /\ mode = "overwrite"
    /\ extraction_timestamp \in Timestamps
    /\ page = 0
    /\ fetch_log = <<>>
    /\ all_products = <<>>
    /\ exc = None
    /\ raw_data = <<>>
    /\ transformed_df = <<>>
    /\ file = None
    /\ backups = <<>>
    /\ sink_log = <<>>
    /\ result = None
    /\ arg = None
    /\ ret = None

NextExtract == FetchPage \/ ExtractReturn

SpecExtract == InitExtract /\ [][NextExtract]_vars

\* the interpreter runs the function to its end: every call of fetch_webpage
\* returns (timeout = 30, extract.py:28)
FairExtract == SpecExtract /\ WF_vars(NextExtract)

----------------------------------------------------------------------------
(* Properties of extract_fashion_data, under SpecExtract *)

\* fetch_webpage reported failure
FetchFailed(e) == IsNone(e.html)

\* the page was fetched and parse_product_data found no card in it
EmptyPage(e) == ~IsNone(e.html) /\ e.html.t = "html" /\ e.products = <<>>

\* the records of the first k fetches, in the order of the fetches
RECURSIVE RecordsOfFirst(_, _)
RecordsOfFirst(log, k) ==
    IF k = 0 THEN <<>> ELSE RecordsOfFirst(log, k - 1) \o log[k].products

ExtractReturned == pc = "extracted" /\ IsNone(exc)

\* C1: once a fetched page parses to zero records the loop stops: that fetch
\* is the last one and no page with a higher index is fetched, no exception
\* is raised, and the sequence returned is the records of the earlier pages.
C1_EmptyPageStops ==
    \A i \in 1..Len(fetch_log) :
        EmptyPage(fetch_log[i]) =>
            /\ i = Len(fetch_log)
            /\ \A j \in 1..Len(fetch_log) : fetch_log[j].page <= fetch_log[i].page
            /\ page = fetch_log[i].page
            /\ pc \in {"break", "extracted"}
            /\ ~ENABLED FetchPage
            /\ IsNone(exc)
            /\ all_products = RecordsOfFirst(fetch_log, i - 1)
            /\ pc = "extracted" => raw_data = RecordsOfFirst(fetch_log, i - 1)

\* page 2 of a 3-page run is empty: page 3 is not fetched and the records of
\* page 1 are returned
C1_Witness ==
    /\ ExtractReturned
    /\ max_pages = 3
    /\ Len(fetch_log) = 2
    /\ EmptyPage(fetch_log[2])
    /\ raw_data # <<>>
    /\ raw_data = fetch_log[1].products

\* C2: a failed fetch appends nothing and leaves the accumulator as it was,
\* and the driver goes on with the next page when there is one; a run whose
\* fetches all fail attempts all max_pages pages and returns no record.
C2_FetchFailureSkips ==
    /\ \A i \in 1..Len(fetch_log) :
          FetchFailed(fetch_log[i]) =>
              /\ fetch_log[i].products = <<>>
              /\ IF i < Len(fetch_log)
                 THEN /\ fetch_log[i + 1].before = fetch_log[i].before
                      /\ fetch_log[i + 1].page = fetch_log[i].page + 1
                 ELSE /\ all_products = fetch_log[i].before
                      /\ (pc = "loop" /\ fetch_log[i].page < max_pages)
                             => ENABLED FetchPage /\ ~ENABLED ExtractReturn
                      /\ pc # "break"
                      /\ pc = "extracted" => fetch_log[i].page = max_pages
    /\ (/\ pc = "extracted"
        /\ max_pages >= 1
        /\ \A i \in 1..Len(fetch_log) : FetchFailed(fetch_log[i]))
           => /\ Len(fetch_log) = max_pages
              /\ IsNone(exc)
              /\ raw_data = <<>>

\* the fetch of page 2 fails between two pages that hold records
C2_Witness ==
    /\ ExtractReturned
    /\ Len(fetch_log) = 3
    /\ FetchFailed(fetch_log[2])
    /\ fetch_log[1].products # <<>>
    /\ fetch_log[3].products # <<>>
    /\ raw_data = fetch_log[1].products \o fetch_log[3].products

C3_Safe ==
    /\ Len(fetch_log) <= max_pages
    /\ \A i \in 1..Len(fetch_log) : fetch_log[i].page = i
    /\ page = Len(fetch_log)
    /\ (pc = "extracted" /\ max_pages >= 1) =>
          \/ /\ EmptyPage(fetch_log[Len(fetch_log)])
             /\ \A i \in 1..(Len(fetch_log) - 1) : ~EmptyPage(fetch_log[i])
          \/ /\ Len(fetch_log) = max_pages
             /\ \A i \in 1..Len(fetch_log) : ~EmptyPage(fetch_log[i])

\* C3: for max_pages >= 1 the function returns, whatever the fetches give;
\* it stops either at an empty page or after page max_pages, and for no
\* other reason; the pages are fetched in the order 1, 2, 3, ..., each once,
\* and at most max_pages of them.
C3_Terminates ==
    /\ []C3_Safe
    /\ (max_pages >= 1) => <>ExtractReturned

\* all three pages of a 3-page run are fetched and none is empty
C3_Witness ==
    /\ ExtractReturned
    /\ max_pages = 3
    /\ Len(fetch_log) = 3
    /\ \A i \in 1..3 : ~EmptyPage(fetch_log[i])

\* the parser keeps the order of the cards of a page
InCardOrder(e) ==
    (~IsNone(e.html) /\ e.html.t = "html") =>
        /\ Len(e.products) = Len(e.html.cards)
        /\ \A k \in 1..Len(e.products) :
              e.products[k].title = Str(Strip(e.html.cards[k].title.v))

\* C4: what is returned is the concatenation, in page order and within a
\* page in card order, of the records of the pages that were fetched and
\* held a record; what was accumulated stays in front, unchanged.
C4_Concatenation ==
    /\ all_products = RecordsOfFirst(fetch_log, Len(fetch_log))
    /\ \A i \in 1..Len(fetch_log) :
          /\ fetch_log[i].before = RecordsOfFirst(fetch_log, i - 1)
          /\ InCardOrder(fetch_log[i])
          /\ (FetchFailed(fetch_log[i]) \/ Falsy(fetch_log[i].html))
                => fetch_log[i].products = <<>>
    /\ ExtractReturned => raw_data = RecordsOfFirst(fetch_log, Len(fetch_log))

\* a page of two cards, a failed fetch, a page of one card
C4_Witness ==
    /\ ExtractReturned
    /\ Len(fetch_log) = 3
    /\ Len(fetch_log[1].products) = 2
    /\ FetchFailed(fetch_log[2])
    /\ Len(fetch_log[3].products) = 1
    /\ Len(raw_data) = 3
    /\ raw_data[1].title = Str("Tee")
    /\ raw_data[2].title = Str("Hat")
    /\ raw_data[3].title = Str("Cap")

----------------------------------------------------------------------------
(* parse_product_data called on a page of one card *)

MaxParas == 2

ParaPool ==
    {Para("Rating: * 4.5 / 5"), Para("Rating:5"), Para(" 3 Colors "),
     Para("Colors"), Para("Size: M"), Para("Gender: Men"), Para("New"),
     [styled |-> FALSE, text |-> "Size: L"]}

RECURSIVE SeqsUpTo(_, _)
SeqsUpTo(S, n) ==
    IF n = 0 THEN {<<>>}
    ELSE LET shorter == SeqsUpTo(S, n - 1)
         IN  shorter \cup {Append(q, x) : q \in {r \in shorter : Len(r) = n - 1}, x \in S}

Cards ==
    [title : {None, Str(""), Str(" Tee ")},
     price : {None, Str("$25.99")},
     paragraphs : SeqsUpTo(ParaPool, MaxParas)]

InitParse ==
    /\ pc = "parse_call"
    /\ arg \in Cards
    /\ ret = None
    /\ max_pages = 0
    /\ mode = "overwrite"
    /\ extraction_timestamp \in Timestamps
    /\ page = 0
    /\ fetch_log = <<>>
    /\ all_products = <<>>
    /\ exc = None
    /\ raw_data = <<>>
    /\ transformed_df = <<>>
    /\ file = None
    /\ backups = <<>>
    /\ sink_log = <<>>
    /\ result = None

\* extract.py:133, for a page that holds the card arg
CallParse ==
    /\ pc = "parse_call"
    /\ ret' = parse_product_data(Html(<<arg>>), extraction_timestamp)
    /\ pc' = "parse_return"
    /\ UNCHANGED <<max_pages, mode, extraction_timestamp, page, fetch_log,
                   all_products, exc, raw_data, transformed_df, file, backups,
                   sink_log, result, arg>>

NextParse == CallParse

SpecParse == InitParse /\ [][NextParse]_vars

\* the texts of the card's descriptor lines (the paragraphs in detail style)
LinesOf(card) ==
    {Strip(card.paragraphs[i].text) :
        i \in {j \in 1..Len(card.paragraphs) : card.paragraphs[j].styled}}

\* "<integer> Colors" occurs in the line
HasColorsPattern(line) ==
    \E i \in 1..Len(line), j \in 1..Len(line) :
        /\ i < j
        /\ IsDigit(Char(line, i))
        /\ \A k \in (i + 1)..(j - 1) : IsSpace(Char(line, k))
        /\ j > i + 1
        /\ SubSeq(line, j, Len(line)) # ""
        /\ StartsWith(SubSeq(line, j, Len(line)), "Colors")

\* C5: every card gives one record with all seven keys, each a text; a field
\* whose element or labelled descriptor line is missing holds its sentinel,
\* and a card without descriptor lines holds all four descriptor sentinels.
\* (A line counts as the rating, size or gender line when it starts with the
\* label "Rating:", "Size:" or "Gender:".)
C5_ParserTotal ==
    pc = "parse_return" =>
        /\ Len(ret) = 1
        /\ DOMAIN ret[1] = ProductKeys
        /\ \A k \in ProductKeys : ret[1][k].t = "str"
        /\ ret[1].timestamp = extraction_timestamp
        /\ IsNone(arg.title) => ret[1].title = Str("Unknown")
        /\ IsNone(arg.price) => ret[1].price = Str("Price Unavailable")
        /\ (\A l \in LinesOf(arg) : ~StartsWith(l, "Rating:"))
              => ret[1].rating = Str("Not Rated")
        /\ (\A l \in LinesOf(arg) : ~HasColorsPattern(l))
              => ret[1].colors = Str("0")
        /\ (\A l \in LinesOf(arg) : ~StartsWith(l, "Size:"))
              => ret[1].size = Str("Unknown")
        /\ (\A l \in LinesOf(arg) : ~StartsWith(l, "Gender:"))
              => ret[1].gender = Str("Unknown")
        /\ LinesOf(arg) = {} =>
              /\ ret[1].rating = Str("Not Rated")
              /\ ret[1].colors = Str("0")
              /\ ret[1].size = Str("Unknown")
              /\ ret[1].gender = Str("Unknown")

\* a card with neither title nor price, whose only paragraph is not in the
\* detail style
C5_Witness ==
    /\ pc = "parse_return"
    /\ IsNone(arg.title)
    /\ IsNone(arg.price)
    /\ arg.paragraphs = <<[styled |-> FALSE, text |-> "Size: L"]>>
    /\ ret[1] = [title |-> Str("Unknown"), price |-> Str("Price Unavailable"),
                 rating |-> Str("Not Rated"), colors |-> Str("0"),
                 size |-> Str("Unknown"), gender |-> Str("Unknown"),
                 timestamp |-> extraction_timestamp]

----------------------------------------------------------------------------
(* transform_fashion_data called on a sequence of raw records *)

MaxRecs == 3

Raw(title, price, rating, colors, size, gender, ts) ==
    [title |-> Str(title), price |-> Str(price), rating |-> Str(rating),
     colors |-> Str(colors), size |-> Str(size), gender |-> Str(gender),
     timestamp |-> Str(ts)]

RawTee      == Raw("Tee", "$25.99", "* 4.5 / 5", "3", "M", "Men", "t1")
\* the key of RawTee from other texts, with another rating
RawTeeAgain == Raw("Tee", "$25.990", "* 3.9 / 5", "5", " m", "men", "t2")
\* the key of RawTee, and colors that are no integer
RawTeeBad   == Raw("Tee", "$25.99", "* 2.0 / 5", "abc", "M", "Men", "t1")
\* the parser's title sentinel on an otherwise valid record
RawUnknown  == Raw("Unknown", "$25.99", "* 4.5 / 5", "3", "M", "Men", "t1")
\* the parser's sentinels in every field but the title
RawCap      == Raw("Cap", "Price Unavailable", "Not Rated", "0", "Unknown", "Unknown", "t1")
RawHat      == Raw("Hat", "$1,234.56", "* 4.8 / 5", "0", "XL", "Women", "t1")
\* a price without a number on an otherwise valid record
RawFree     == Raw("Hat", "free", "* 4.8 / 5", "2", "XL", "Women", "t1")
RawSock     == Raw("Sock", "$1", "4/5", "-2", "s", "UNISEX", "t2")

RawPool ==
    {RawTee, RawTeeAgain, RawTeeBad, RawUnknown, RawCap, RawHat, RawFree, RawSock}

InitTransform ==
    /\ pc = "transform_call"
    /\ raw_data \in SeqsUpTo(RawPool, MaxRecs)
    /\ transformed_df = <<>>
    /\ max_pages = 0
    /\ mode = "overwrite"
    /\ extraction_timestamp = Str("t1")
    /\ page = 0
    /\ fetch_log = <<>>
    /\ all_products = <<>>
    /\ exc = None
    /\ file = None
    /\ backups = <<>>
    /\ sink_log = <<>>
    /\ result = None
    /\ arg = None
    /\ ret = None

\* main.py:58 / transform.py:147
CallTransform ==
    /\ pc = "transform_call"
    /\ transformed_df' = transform_fashion_data(raw_data)
    /\ ret' = transform_index(raw_data)
    /\ pc' = "transform_return"
    /\ UNCHANGED <<max_pages, mode, extraction_timestamp, page, fetch_log,
                   all_products, exc, raw_data, file, backups, sink_log,
                   result, arg>>

NextTransform == CallTransform

SpecTransform == InitTransform /\ [][NextTransform]_vars

CriticalFields == {"title", "price", "rating", "colors", "size", "gender"}

\* C6: every record of the output has a value in each of title, price,
\* rating, colors, size and gender, a title that passes is_valid_title, and
\* a price above zero.
C6_OutputValid ==
    pc = "transform_return" =>
        \A i \in 1..Len(transformed_df) :
            /\ \A c \in CriticalFields : transformed_df[i][c].t # "None"
            /\ is_valid_title(transformed_df[i].title)
            /\ transformed_df[i].price.t = "float"
            /\ transformed_df[i].price.n > 0

\* of a record without a price, a record of sentinels and a valid record,
\* the valid one alone is kept
C6_Witness ==
    /\ pc = "transform_return"
    /\ raw_data = <<RawFree, RawCap, RawTee>>
    /\ Len(transformed_df) = 1
    /\ transformed_df[1].title = Str("Tee")
    /\ transformed_df[1].price = PyFloat(415840, 0)

\* the composite key of a normalised record
CompositeKey(r) == <<r.title, r.price, r.size, r.gender>>

\* the record passes the title, absent-value and price filters
PassesFilters(r) ==
    /\ is_valid_title(r.title)
    /\ \A c \in CriticalFields : r[c].t # "None"
    /\ r.price.n > 0

\* the input positions whose normalised record passes the filters and has
\* the key k
Colliding(raw, k) ==
    {i \in 1..Len(raw) :
        PassesFilters(NormaliseRow(raw[i])) /\ CompositeKey(NormaliseRow(raw[i])) = k}

\* C7: no two records of the output have the same key (title, price, size,
\* gender); of the input records that collide on a key (those that pass the
\* validity filters and so reach the deduplication) the first in input order
\* is the one kept: the output record has its rating, colors and timestamp.
C7_KeepFirst ==
    pc = "transform_return" =>
        /\ \A i, j \in 1..Len(transformed_df) :
              i # j => CompositeKey(transformed_df[i]) # CompositeKey(transformed_df[j])
        /\ \A i \in 1..Len(transformed_df) :
              LET hits == Colliding(raw_data, CompositeKey(transformed_df[i]))
              IN  /\ hits # {}
                  /\ LET first == NormaliseRow(raw_data[CHOOSE h \in hits : \A g \in hits : h <= g])
                     IN  /\ transformed_df[i].rating = first.rating
                         /\ transformed_df[i].colors.n = first.colors.n
                         /\ transformed_df[i].timestamp = first.timestamp

\* two valid records collide on the key: the earlier one is kept
C7_Witness ==
    /\ pc = "transform_return"
    /\ raw_data = <<RawHat, RawTee, RawTeeAgain>>
    /\ Len(transformed_df) = 2
    /\ transformed_df[2].title = Str("Tee")
    /\ transformed_df[2].rating = PyFloat(45, 1)
    /\ transformed_df[2].colors = PyInt(3)
    /\ transformed_df[2].timestamp = Str("t1")

----------------------------------------------------------------------------
(* append_to_csv called on a validated dataset and a file *)

MaxLines == 2
MaxNew == 2

Line(title, price, rating, colors, size, gender, ts) ==
    [title |-> title, price |-> price, rating |-> rating, colors |-> colors,
     size |-> size, gender |-> gender, timestamp |-> ts]

\* lines that earlier runs of the pipeline wrote
LinePool ==
    {Line("Tee", "415840.0", "4.0", "2", "M", "Men", "t0"),
     Line("Sock", "16000.0", "3.5", "1", "S", "Unisex", "t0"),
     Line("2024", "32000.0", "4.2", "4", "L", "Women", "t0")}

Clean(title, price, rating, colors, size, gender, ts) ==
    [title |-> Str(title), price |-> price, rating |-> rating,
     colors |-> PyInt(colors), size |-> Str(size), gender |-> Str(gender),
     timestamp |-> Str(ts)]

\* rows of a validated dataset: transform_fashion_data gives them for the
\* titles Tee, Hat and 2024
CleanPool ==
    {Clean("Tee", PyFloat(415840, 0), PyFloat(45, 1), 3, "M", "Men", "t1"),
     Clean("Tee", PyFloat(415840, 0), PyFloat(39, 1), 5, "M", "Men", "t2"),
     Clean("Hat", PyFloat(19752960, 0), PyFloat(48, 1), 0, "XL", "Women", "t1"),
     Clean("2024", PyFloat(32000, 0), PyFloat(49, 1), 1, "L", "Women", "t1")}

ExistingFiles == {CsvFile(l) : l \in SeqsUpTo(LinePool, MaxLines)}

InitLoad ==
    /\ pc = "append_call"
    /\ file \in ExistingFiles \cup {None}
    /\ transformed_df \in SeqsUpTo(CleanPool, MaxNew)
    /\ backups = <<>>
    /\ result = None
    /\ arg = None
    /\ ret = None
    /\ max_pages = 0
    /\ mode = "append"
    /\ extraction_timestamp = Str("t1")
    /\ page = 0
    /\ fetch_log = <<>>
    /\ all_products = <<>>
    /\ exc = None
    /\ raw_data = <<>>
    /\ sink_log = <<>>

\* load.py:203; arg keeps the file as it was before the call
CallAppend ==
    /\ pc = "append_call"
    /\ \E io_ok \in BOOLEAN :
          LET out == append_to_csv(transformed_df, file, backups, io_ok)
          IN  /\ file' = out.file
              /\ backups' = out.backups
              /\ result' = PyBool(out.ok)
    /\ arg' = file
    /\ pc' = "append_return"
    /\ UNCHANGED <<max_pages, mode, extraction_timestamp, page, fetch_log,
                   all_products, exc, raw_data, transformed_df, sink_log, ret>>

NextLoad == CallAppend

SpecLoad == InitLoad /\ [][NextLoad]_vars

\* a line of the file as the record it stands for: the title, size, gender
\* and timestamp as written, the numbers by their value
RowOfLine(l) ==
    [title |-> l.title, price |-> ParseFloat(l.price), rating |-> ParseFloat(l.rating),
     colors |-> ParseFloat(l.colors), size |-> l.size, gender |-> l.gender,
     timestamp |-> l.timestamp]

RowsOfLines(lines) == [i \in 1..Len(lines) |-> RowOfLine(lines[i])]

RowKey(r) == <<r.title, r.price, r.size, r.gender>>

\* of the rows with one key, the last one only
RECURSIVE LastOccurrences(_)
LastOccurrences(rows) ==
    IF rows = <<>> THEN <<>>
    ELSE IF \E j \in 2..Len(rows) : RowKey(rows[j]) = RowKey(rows[1])
         THEN LastOccurrences(Tail(rows))
         ELSE <<rows[1]>> \o LastOccurrences(Tail(rows))

AppendedToExisting ==
    pc = "append_return" /\ result = PyBool(TRUE) /\ ~IsNone(arg)

\* C8: an append to an existing file writes the existing rows followed by the
\* new rows, deduplicated on (title, price, size, gender) keeping the last
\* occurrence: a new record replaces the existing row of its key, the other
\* rows are all kept, and no two rows of the result have the same key.
C8_AppendKeepsLast ==
    AppendedToExisting =>
        LET written == RowsOfLines(file.lines)
        IN  /\ written = LastOccurrences(RowsOfLines(arg.lines \o to_csv(transformed_df)))
            /\ \A i, j \in 1..Len(written) :
                  i # j => RowKey(written[i]) # RowKey(written[j])

----------------------------------------------------------------------------
(* Properties of run_etl_pipeline, under Spec *)

PipelineReturned == pc = "done"

C9_State ==
    /\ Len(sink_log) <= 1
    /\ \A i \in 1..Len(sink_log) :
          /\ IsNone(exc)
          /\ raw_data # <<>>
          /\ raw_data = all_products
          /\ transformed_df # <<>>
          /\ sink_log[i].df = transformed_df
          /\ pc = "done"
    /\ sink_log = <<>> => backups = <<>> /\ file \in InitialFiles
    /\ PipelineReturned =>
          /\ result \in {PyBool(TRUE), PyBool(FALSE)}
          /\ (~IsNone(exc) \/ raw_data = <<>> \/ transformed_df = <<>>)
                => result = PyBool(FALSE) /\ sink_log = <<>>
          /\ result = PyBool(TRUE) =>
                /\ IsNone(exc) /\ raw_data # <<>> /\ transformed_df # <<>>
                /\ Len(sink_log) = 1 /\ sink_log[1].ok

\* the file and the backups change only in the step that invokes the sink
C9_Step ==
    (file' # file \/ backups' # backups) =>
        /\ sink_log' = Append(sink_log, sink_log'[Len(sink_log')])
        /\ pc = "load"

\* C9: when the extraction gives no record (or raises) or the transformation
\* gives an empty dataset the pipeline returns False without invoking the
\* sink, so the file and the backups stay as they were; the sink is invoked
\* at most once, after both phases gave a non-empty result; True is returned
\* only when all three phases succeeded; the function always returns.
C9_NoSinkOnFailure == []C9_State /\ [][C9_Step]_vars

\* records were extracted, none survived the transformation: False is
\* returned and the existing file is untouched
C9_Witness ==
    /\ PipelineReturned
    /\ raw_data # <<>>
    /\ transformed_df = <<>>
    /\ result = PyBool(FALSE)
    /\ sink_log = <<>>
    /\ backups = <<>>
    /\ file = CsvFile(OldLines)

----------------------------------------------------------------------------
(* The field normalisers of utils/transform.py, one call on a bounded text *)

MaxLen == 4

Alphabet == {"$", "1", "5", ",", "."}

RECURSIVE TextsUpTo(_)
TextsUpTo(n) ==
    IF n = 0 THEN {""}
    ELSE LET shorter == TextsUpTo(n - 1)
         IN  shorter \cup {s \o c : s \in shorter, c \in Alphabet}

\* the prices of the tests and of the site, and texts around the decimal point
PriceFixtures ==
    {"Price Unavailable", "price unavailable", "$100.00", "$1,234.56",
     "$25.99", "USD 7", "1.5,5", "$10,000", "abc", " "}

PriceInputs ==
    {None} \cup {Str(s) : s \in TextsUpTo(MaxLen) \cup PriceFixtures}

\* the texts made of up to n words of W
RECURSIVE WordsUpTo(_, _)
WordsUpTo(W, n) ==
    IF n = 0 THEN {""}
    ELSE LET shorter == WordsUpTo(W, n - 1)
         IN  shorter \cup {s \o w : s \in shorter, w \in W}

TextInputs(W, fixtures) ==
    {None} \cup {Str(s) : s \in WordsUpTo(W, MaxLen) \cup fixtures}

RatingWords == {"Invalid", " Rating", "4.5", " / 5", " "}

\* the ratings of the tests and of the site ("*" stands for the star)
RatingFixtures ==
    {"Not Rated", "not rated", "* 4.5 / 5", "* Invalid Rating / 5",
     "Invalid Rating 4.5 / 5", "Invalid 4/5", "invalid rating 3 / 5",
     "4 /5", "3.", "Rating", "5"}

RatingInputs == TextInputs(RatingWords, RatingFixtures)

ColorsWords == {"3", "0", "-", " ", "a"}

ColorsFixtures == {"abc", "+3", "1_0", "3.0", "3 Colors", "12"}

ColorsInputs == TextInputs(ColorsWords, ColorsFixtures)

SizeWords == {"x", "X", "L", "s", " "}

SizeFixtures ==
    {"Unknown", "UNKNOWN", "unknown", "M", "m", "XXL", "xxl", "XXXL",
     " xl ", "Medium", "Size: M"}

SizeInputs == TextInputs(SizeWords, SizeFixtures)

GenderWords == {"men", "MEN", "wo", "Wo", " "}

GenderFixtures ==
    {"Unknown", "UNKNOWN", "Unisex", "unisex", "UNISEX", "WOMEN", "Women",
     "Men", "Male", "Kids", "Gender: Men"}

GenderInputs == TextInputs(GenderWords, GenderFixtures)

TitleWords == {"unknown", "Unknown", " product", " ", "T"}

TitleFixtures ==
    {"UNKNOWN PRODUCT", "Unknown Product", "T-shirt 1", "Hoodie 3",
     "unknownproduct", "UNKNOWN"}

TitleInputs == TextInputs(TitleWords, TitleFixtures)

\* the call each run makes, and the inputs it is made on
FieldCalls ==
    [price_call  |-> PriceInputs,
     rating_call |-> RatingInputs,
     colors_call |-> ColorsInputs,
     size_call   |-> SizeInputs,
     gender_call |-> GenderInputs,
     title_call  |-> TitleInputs]

InitFields ==
    /\ pc \in DOMAIN FieldCalls
    /\ arg \in FieldCalls[pc]
    /\ ret = None
    /\ max_pages = 0
    /\ mode = "overwrite"
    /\ extraction_timestamp = Str("t1")
    /\ page = 0
    /\ fetch_log = <<>>
    /\ all_products = <<>>
    /\ exc = None
    /\ raw_data = <<>>
    /\ transformed_df = <<>>
    /\ file = None
    /\ backups = <<>>
    /\ sink_log = <<>>
    /\ result = None

\* transform.py:167, for one cell of the price column
CallCleanPrice ==
    /\ pc = "price_call"
    /\ ret' = clean_price(arg)
    /\ pc' = "price_return"
    /\ UNCHANGED <<max_pages, mode, extraction_timestamp, page, fetch_log,
                   all_products, exc, raw_data, transformed_df, file, backups,
                   sink_log, result, arg>>

\* transform.py:168, for one cell of the rating column
CallCleanRating ==
    /\ pc = "rating_call"
    /\ ret' = clean_rating(arg)
    /\ pc' = "rating_return"
    /\ UNCHANGED <<max_pages, mode, extraction_timestamp, page, fetch_log,
                   all_products, exc, raw_data, transformed_df, file, backups,
                   sink_log, result, arg>>

\* transform.py:169, for one cell of the colors column
CallCleanColors ==
    /\ pc = "colors_call"
    /\ ret' = clean_colors(arg)
    /\ pc' = "colors_return"
    /\ UNCHANGED <<max_pages, mode, extraction_timestamp, page, fetch_log,
                   all_products, exc, raw_data, transformed_df, file, backups,
                   sink_log, result, arg>>

\* transform.py:170, for one cell of the size column
CallStandardizeSize ==
    /\ pc = "size_call"
    /\ ret' = standardize_size(arg)
    /\ pc' = "size_return"
    /\ UNCHANGED <<max_pages, mode, extraction_timestamp, page, fetch_log,
                   all_products, exc, raw_data, transformed_df, file, backups,
                   sink_log, result, arg>>

\* transform.py:171, for one cell of the gender column
CallStandardizeGender ==
    /\ pc = "gender_call"
    /\ ret' = standardize_gender(arg)
    /\ pc' = "gender_return"
    /\ UNCHANGED <<max_pages, mode, extraction_timestamp, page, fetch_log,
                   all_products, exc, raw_data, transformed_df, file, backups,
                   sink_log, result, arg>>

\* transform.py:177, for one cell of the title column
CallIsValidTitle ==
    /\ pc = "title_call"
    /\ ret' = PyBool(is_valid_title(arg))
    /\ pc' = "title_return"
    /\ UNCHANGED <<max_pages, mode, extraction_timestamp, page, fetch_log,
                   all_products, exc, raw_data, transformed_df, file, backups,
                   sink_log, result, arg>>

NextFields ==
    \/ CallCleanPrice
    \/ CallCleanRating
    \/ CallCleanColors
    \/ CallStandardizeSize
    \/ CallStandardizeGender
    \/ CallIsValidTitle

SpecFields == InitFields /\ [][NextFields]_vars

----------------------------------------------------------------------------
(* Properties of clean_price, under SpecFields *)

RECURSIVE WithoutSeparators(_)
WithoutSeparators(s) ==
    IF s = "" THEN ""
    ELSE LET rest == WithoutSeparators(SubSeq(s, 2, Len(s)))
         IN  IF Char(s, 1) = "," THEN rest ELSE Char(s, 1) \o rest

HasDigit(s) == \E i \in 1..Len(s) : IsDigit(Char(s, i))

AllDigits(s, from, to) == \A x \in from..to : IsDigit(Char(s, x))

\* t[i..k] is the first numeric token of t: it starts at the first digit of
\* t, its integer part t[i..j] is the whole run of digits there, and it goes
\* on through a "." and the whole run of digits after it when t[j+1] is "."
FirstNumericToken(t, i, j, k) ==
    /\ i <= j /\ j <= k
    /\ ~HasDigit(SubSeq(t, 1, i - 1))
    /\ AllDigits(t, i, j)
    /\ ~IsDigit(Char(t, j + 1))
    /\ IF Char(t, j + 1) = "."
       THEN /\ k >= j + 1
            /\ AllDigits(t, j + 2, k)
            /\ ~IsDigit(Char(t, k + 1))
       ELSE k = j

\* the number a token digits [ "." digits ] of t denotes, times the rate
TokenTimesRate(t, i, j, k) ==
    LET fraction == IF k > j THEN SubSeq(t, j + 2, k) ELSE ""
    IN  PyFloat(DigitsValue(SubSeq(t, i, j) \o fraction) * 16000, Len(fraction))

PriceReturned == pc = "price_return"

\* C10: clean_price returns a float for every input: 0 for an absent input,
\* the empty text, the exact text 'Price Unavailable' and a text with no
\* digit; otherwise 16000 times the first numeric token of the text with
\* its commas taken out ('$100.00' gives 1600000, '$1,234.56' 19752960).
C10_PriceTotal ==
    PriceReturned =>
        /\ ret.t = "float"
        /\ IF IsNone(arg) THEN ret = PyFloat(0, 0)
           ELSE IF arg.v \in {"", "Price Unavailable"} \/ ~HasDigit(arg.v)
           THEN ret = PyFloat(0, 0)
           ELSE LET t == WithoutSeparators(arg.v)
                IN  \E i, j, k \in 1..Len(t) :
                       /\ FirstNumericToken(t, i, j, k)
                       /\ ret = TokenTimesRate(t, i, j, k)
        /\ arg = Str("$100.00") => ret = PyFloat(100 * 16000, 0)
        /\ arg = Str("$1,234.56") => ret = PyFloat(123456 * 16000, 2)

C10_Witness ==
    /\ PriceReturned
    /\ arg = Str("$1,234.56")
    /\ ret = PyFloat(19752960, 0)

----------------------------------------------------------------------------
(* Properties of clean_rating, under SpecFields *)

RatingReturned == pc = "rating_return"

HasSubstring(s, sub) ==
    \E i \in 1..Len(s) : \E j \in i..Len(s) : SubSeq(s, i, j) = sub

\* C11, as stated: clean_rating returns None for every text that contains
\* "Invalid", whatever else it contains, and for an absent input, the empty
\* text and the exact text 'Not Rated'.
C11_InvalidIsAbsent ==
    RatingReturned =>
        ((IsNone(arg) \/ arg.v \in {"", "Not Rated"} \/ HasSubstring(arg.v, "Invalid"))
            => IsNone(ret))

\* C11, amended: clean_rating returns None for every text that contains
\* "Invalid Rating", whatever else it contains (a well-formed
\* '<score> / <scale>' included), and for an absent input, the empty text
\* and the exact text 'Not Rated'.
C11_InvalidRatingIsAbsent ==
    RatingReturned =>
        ((IsNone(arg) \/ arg.v \in {"", "Not Rated"}
                      \/ HasSubstring(arg.v, "Invalid Rating"))
            => IsNone(ret))

\* 'Invalid Rating' next to a well-formed score gives None
C11_Witness ==
    /\ RatingReturned
    /\ arg = Str("Invalid Rating 4.5 / 5")
    /\ IsNone(ret)

----------------------------------------------------------------------------
(* Properties of clean_colors, under SpecFields *)

ColorsReturned == pc = "colors_return"

\* the characters int() accepts around and between the digits
IntPunctuation == {" ", "+", "-", "_"}

\* C12: clean_colors returns None for an absent input, the empty text and
\* every text that is not an integer ('abc'); for a text that is one it
\* returns that integer, and '0' gives the integer 0, which is not None.
C12_ColorsParse ==
    ColorsReturned =>
        /\ ret.t \in {"None", "int"}
        /\ IsNone(arg) => IsNone(ret)
        /\ ~IsNone(arg) =>
              /\ arg.v = "" => IsNone(ret)
              /\ ~HasDigit(arg.v) => IsNone(ret)
              /\ (\E i \in 1..Len(arg.v) :
                     ~IsDigit(Char(arg.v, i)) /\ Char(arg.v, i) \notin IntPunctuation)
                    => IsNone(ret)
              /\ (arg.v # "" /\ AllDigits(arg.v, 1, Len(arg.v)))
                    => ret = PyInt(DigitsValue(arg.v))
              /\ (Len(arg.v) > 1 /\ Char(arg.v, 1) = "-" /\ AllDigits(arg.v, 2, Len(arg.v)))
                    => ret = PyInt(0 - DigitsValue(SubSeq(arg.v, 2, Len(arg.v))))
              /\ arg.v = "abc" => IsNone(ret)
              /\ arg.v = "3" => ret = PyInt(3)
              /\ arg.v = "0" => ret = PyInt(0) /\ ~IsNone(ret)

C12_Witness ==
    /\ ColorsReturned
    /\ arg = Str("0")
    /\ ret = PyInt(0)

----------------------------------------------------------------------------
(* Properties of transform_fashion_data, under SpecTransform *)

TransformReturned == pc = "transform_return"

\* an int, or a float of a float64 column with an integral value
IntegerValued(x) == x.t = "int" \/ (x.t = "float" /\ x.e = 0)

\* C13: for every sequence of raw records, the colors of every record of
\* the output is a non-negative integer.
C13_ColorsNonNegative ==
    TransformReturned =>
        \A i \in 1..Len(transformed_df) :
            /\ IntegerValued(transformed_df[i].colors)
            /\ transformed_df[i].colors.n >= 0

----------------------------------------------------------------------------
(* Properties of standardize_size and standardize_gender, under SpecFields *)

SizeReturned == pc = "size_return"

GenderReturned == pc = "gender_return"

Sizes == {"XS", "S", "M", "L", "XL", "XXL"}

Genders == {"Men", "Women", "Unisex"}

Sentinel(x) == IsNone(x) \/ x.v \in {"", "Unknown"}

\* the result the claim gives for the input x over the enumeration E, the
\* text being compared with E's members by Same
Standardized(x, E, Same(_, _)) ==
    IF Sentinel(x) \/ \A e \in E : ~Same(x.v, e) THEN None
    ELSE Str(CHOOSE e \in E : Same(x.v, e))

SameIgnoringCase(text, e) == Upper(text) = Upper(e)

SameTrimmedIgnoringCase(text, e) == Upper(Strip(text)) = Upper(e)

FieldExamples ==
    /\ (SizeReturned /\ arg = Str("xl")) => ret = Str("XL")
    /\ (GenderReturned /\ arg = Str("men")) => ret = Str("Men")
    /\ (GenderReturned /\ arg = Str("WOMEN")) => ret = Str("Women")
    /\ (GenderReturned /\ arg = Str("unisex")) => ret = Str("Unisex")

\* C14, as stated: standardize_size and standardize_gender return None for
\* an absent input, the empty text, the exact text 'Unknown' and every text
\* that is not in the table, otherwise the canonical form, matched
\* case-insensitively; nothing outside the enumeration is returned.
C14_EnumIgnoringCase ==
    /\ SizeReturned =>
          /\ ret \in {None} \cup {Str(e) : e \in Sizes}
          /\ ret = Standardized(arg, Sizes, SameIgnoringCase)
    /\ GenderReturned =>
          /\ ret \in {None} \cup {Str(e) : e \in Genders}
          /\ ret = Standardized(arg, Genders, SameIgnoringCase)
    /\ FieldExamples

\* C14, amended: the text is matched against the table after it is
\* uppercased and its surrounding whitespace is trimmed.
C14_EnumTrimmedIgnoringCase ==
    /\ SizeReturned =>
          /\ ret \in {None} \cup {Str(e) : e \in Sizes}
          /\ ret = Standardized(arg, Sizes, SameTrimmedIgnoringCase)
    /\ GenderReturned =>
          /\ ret \in {None} \cup {Str(e) : e \in Genders}
          /\ ret = Standardized(arg, Genders, SameTrimmedIgnoringCase)
    /\ FieldExamples

\* a gender in capitals gives its canonical form
C14_Witness ==
    /\ GenderReturned
    /\ arg = Str("WOMEN")
    /\ ret = Str("Women")

----------------------------------------------------------------------------
(* Properties of is_valid_title: the predicate on bounded texts, and the    *)
(* title filter of transform_fashion_data                                   *)

InitTitle == (InitFields /\ pc = "title_call") \/ InitTransform

NextTitle == CallIsValidTitle \/ CallTransform

SpecTitle == InitTitle /\ [][NextTitle]_vars

TitleReturned == pc = "title_return"

RejectedTitle(title) ==
    \/ IsNone(title)
    \/ title.v = ""
    \/ Upper(Strip(title.v)) \in {"UNKNOWN PRODUCT", "UNKNOWN", ""}

\* C15: is_valid_title is false exactly when the title is absent, empty or,
\* trimmed and ignoring case, one of 'unknown product', 'unknown' and '';
\* it is true for every other text.  A raw record whose title is the
\* parser's sentinel 'Unknown' is in no output of transform_fashion_data.
C15_TitleValidity ==
    /\ TitleReturned => ret = PyBool(~RejectedTitle(arg))
    /\ TransformReturned =>
          \A i \in 1..Len(transformed_df) : transformed_df[i].title # Str("Unknown")

\* the sentinel in other case and with whitespace around it is rejected
C15_Witness ==
    /\ TitleReturned
    /\ arg = Str(" Unknown product")
    /\ ret = PyBool(FALSE)

\* a record with the title sentinel was given and is not in the output
C15_WitnessDropped ==
    /\ TransformReturned
    /\ raw_data = <<RawUnknown, RawTee>>
    /\ Len(transformed_df) = 1

----------------------------------------------------------------------------
(* Order and index of the output of transform_fashion_data (SpecTransform)  *)

Normalized(raw) == InferColumn([i \in 1..Len(raw) |-> NormaliseRow(raw[i])], "colors")

StrictlyIncreasing(f) == \A i, j \in DOMAIN f : i < j => f[i] < f[j]

\* C16: the output is a subsequence of the normalized input in the input's
\* order (every output record has a source record, and the sources of the
\* output records come in the same order), and its index is 0 .. n-1.
C16_OrderedSubsequence ==
    TransformReturned =>
        /\ \E norm \in {Normalized(raw_data)} :
              \E f \in [1..Len(transformed_df) -> 1..Len(raw_data)] :
                  /\ StrictlyIncreasing(f)
                  /\ \A i \in 1..Len(transformed_df) : transformed_df[i] = norm[f[i]]
        /\ ret = [i \in 1..Len(transformed_df) |-> PyInt(i - 1)]

\* the first and the third record are kept, in this order, as rows 0 and 1
C16_Witness ==
    /\ TransformReturned
    /\ raw_data = <<RawTee, RawCap, RawHat>>
    /\ Len(transformed_df) = 2
    /\ transformed_df[1].title = Str("Tee")
    /\ transformed_df[2].title = Str("Hat")
    /\ ret = <<PyInt(0), PyInt(1)>>

----------------------------------------------------------------------------
(* The timestamp of the records: one run of extract_fashion_data, and one   *)
(* call of transform_fashion_data on records of several runs               *)

InitStamp == InitExtract \/ InitTransform

NextStamp == NextExtract \/ CallTransform

SpecStamp == InitStamp /\ [][NextStamp]_vars

Extracting == pc \in {"loop", "break", "extracted"}

StampedBy(records, ts) == \A i \in 1..Len(records) : records[i].timestamp = ts

C17_State ==
    /\ Extracting =>
          /\ \A e \in 1..Len(fetch_log) :
                StampedBy(fetch_log[e].products, extraction_timestamp)
          /\ StampedBy(all_products, extraction_timestamp)
          /\ StampedBy(raw_data, extraction_timestamp)
    /\ TransformReturned =>
          \A i \in 1..Len(transformed_df) :
              LET hits == Colliding(raw_data, CompositeKey(transformed_df[i]))
              IN  /\ hits # {}
                  /\ transformed_df[i].timestamp =
                        raw_data[CHOOSE h \in hits : \A g \in hits : h <= g].timestamp

\* C17: every record of one run of extract_fashion_data has the run's
\* timestamp, which is set before the first fetch and does not change while
\* the pages are fetched; transform_fashion_data returns each surviving
\* record with the timestamp of its source record.
C17_OneTimestamp ==
    []C17_State /\ [][Extracting => extraction_timestamp' = extraction_timestamp]_vars

\* two pages gave records: all of them carry the timestamp of the run
C17_Witness ==
    /\ pc = "extracted"
    /\ Len(fetch_log) >= 2
    /\ fetch_log[1].products # <<>>
    /\ fetch_log[2].products # <<>>
    /\ raw_data = fetch_log[1].products \o fetch_log[2].products
    /\ extraction_timestamp = Str("t2")
    /\ StampedBy(raw_data, Str("t2"))

\* records of two runs: each is returned with its own timestamp
C17_WitnessCarried ==
    /\ TransformReturned
    /\ raw_data = <<RawSock, RawTee>>
    /\ Len(transformed_df) = 2
    /\ transformed_df[1].timestamp = Str("t2")
    /\ transformed_df[2].timestamp = Str("t1")

----------------------------------------------------------------------------
(* The colors sentinel and the absent-value filter (SpecTransform) *)

\* the raw record has valid title, price, rating, size and gender
ValidButColors(r) ==
    /\ ~RejectedTitle(r.title)
    /\ clean_price(r.price).n > 0
    /\ ~IsNone(clean_rating(r.rating))
    /\ ~IsNone(standardize_size(r.size))
    /\ ~IsNone(standardize_gender(r.gender))

RawKey(r) ==
    <<r.title, clean_price(r.price), standardize_size(r.size), standardize_gender(r.gender)>>

FirstWithItsKey(raw, j) == \A i \in 1..(j - 1) : RawKey(raw[i]) # RawKey(raw[j])

\* C18: a raw record with the colors sentinel '0' and valid title, price,
\* rating, size and gender is not dropped: when it is the first record with
\* its key, the output has a record with that key, its rating and
\* timestamp, and colors = 0.
C18_ZeroColorsKept ==
    TransformReturned =>
        \A j \in 1..Len(raw_data) :
            (/\ raw_data[j].colors = Str("0")
             /\ ValidButColors(raw_data[j])
             /\ FirstWithItsKey(raw_data, j))
            => \E i \in 1..Len(transformed_df) :
                  /\ CompositeKey(transformed_df[i]) = RawKey(raw_data[j])
                  /\ transformed_df[i].rating = clean_rating(raw_data[j].rating)
                  /\ transformed_df[i].timestamp = raw_data[j].timestamp
                  /\ IntegerValued(transformed_df[i].colors)
                  /\ transformed_df[i].colors.n = 0

\* a record of sentinels is dropped, the valid record with colors '0' stays
C18_Witness ==
    /\ TransformReturned
    /\ raw_data = <<RawCap, RawHat>>
    /\ Len(transformed_df) = 1
    /\ transformed_df[1].title = Str("Hat")
    /\ transformed_df[1].colors = PyInt(0)

----------------------------------------------------------------------------
(* Filtering before deduplication (SpecTransform) *)

\* the positions of the output whose record has the key k
WithKey(df, k) == {i \in 1..Len(df) : CompositeKey(df[i]) = k}

\* C19: the validity filters run before the deduplication, so a dropped
\* record never shadows a valid one: for every key that some input record
\* passing the title, absent-value and price filters has, the output holds
\* exactly one record with the key, and it is the earliest of the input
\* records that pass the filters, whatever was dropped before it.
C19_InvalidNeverShadows ==
    TransformReturned =>
        \A norm \in {Normalized(raw_data)} :
            \A j \in 1..Len(raw_data) :
                PassesFilters(norm[j]) =>
                    LET k     == CompositeKey(norm[j])
                        hits  == {h \in 1..Len(raw_data) :
                                     PassesFilters(norm[h]) /\ CompositeKey(norm[h]) = k}
                        first == CHOOSE h \in hits : \A g \in hits : h <= g
                        out   == WithKey(transformed_df, k)
                    IN  /\ Cardinality(out) = 1
                        /\ \A i \in out : transformed_df[i] = norm[first]

\* the first record with the key has colors that are no integer and is
\* dropped; the second one, valid, is in the output
C19_Witness ==
    /\ TransformReturned
    /\ raw_data = <<RawTeeBad, RawTee>>
    /\ Len(transformed_df) = 1
    /\ transformed_df[1].rating = PyFloat(45, 1)
    /\ transformed_df[1].colors = PyFloat(3, 0)

----------------------------------------------------------------------------
(* A fetch that gives the empty text (SpecExtract) *)

EmptyText(e) == e.html = Str("")

\* C20: a fetch that gives the empty text is handled like a failed one: it
\* adds no record, leaves the accumulator as it was and the driver goes on
\* with the next page when there is one; the pagination ends early only
\* after a non-empty text in which the parser found no card.
C20_EmptyTextSkips ==
    /\ \A i \in 1..Len(fetch_log) :
          EmptyText(fetch_log[i]) =>
              /\ fetch_log[i].products = <<>>
              /\ IF i < Len(fetch_log)
                 THEN /\ fetch_log[i + 1].before = fetch_log[i].before
                      /\ fetch_log[i + 1].page = fetch_log[i].page + 1
                 ELSE /\ all_products = fetch_log[i].before
                      /\ (pc = "loop" /\ fetch_log[i].page < max_pages)
                             => ENABLED FetchPage /\ ~ENABLED ExtractReturn
                      /\ pc # "break"
                      /\ pc = "extracted" => fetch_log[i].page = max_pages
    /\ (pc = "break" \/ (pc = "extracted" /\ Len(fetch_log) < max_pages))
          => /\ fetch_log # <<>>
             /\ EmptyPage(fetch_log[Len(fetch_log)])
             /\ fetch_log[Len(fetch_log)].html # Str("")

\* page 2 comes back as the empty text between two pages that hold records
C20_Witness ==
    /\ ExtractReturned
    /\ Len(fetch_log) = 3
    /\ EmptyText(fetch_log[2])
    /\ fetch_log[1].products # <<>>
    /\ fetch_log[3].products # <<>>
    /\ raw_data = fetch_log[1].products \o fetch_log[3].products

----------------------------------------------------------------------------
(* The empty page range (SpecExtract) *)

\* C21: for max_pages < 1 extract_fashion_data fetches no page and returns
\* the empty sequence of records, without raising.
C21_EmptyRangeReturns ==
    (pc = "extracted" /\ max_pages < 1) =>
        /\ fetch_log = <<>>
        /\ IsNone(exc)
        /\ raw_data = <<>>

----------------------------------------------------------------------------
(* append_to_csv called twice in a row with one dataset *)

\* load.py:103-146 again, with the dataset of the first call; ret keeps the
\* file as the first call left it
CallAppendAgain ==
    /\ pc = "append_return"
    /\ result = PyBool(TRUE)
    /\ \E io_ok \in BOOLEAN :
          LET out == append_to_csv(transformed_df, file, backups, io_ok)
          IN  /\ file' = out.file
              /\ backups' = out.backups
              /\ result' = PyBool(out.ok)
    /\ ret' = file
    /\ pc' = "append_again_return"
    /\ UNCHANGED <<max_pages, mode, extraction_timestamp, page, fetch_log,
                   all_products, exc, raw_data, transformed_df, sink_log, arg>>

NextAppendTwice == CallAppend \/ CallAppendAgain

SpecAppendTwice == InitLoad /\ [][NextAppendTwice]_vars

UniqueKeys(df) == \A i, j \in 1..Len(df) : i # j => KeyOf(df[i]) # KeyOf(df[j])

\* C23: appending one validated dataset with unique keys twice in a row
\* leaves the file, after the second append, with the rows it had after the
\* first one, in the same order, whether or not the file existed before.
C23_AppendIdempotent ==
    (/\ pc = "append_again_return"
     /\ result = PyBool(TRUE)
     /\ UniqueKeys(transformed_df))
        => file.lines = ret.lines

----------------------------------------------------------------------------
(* Runs of run_etl_pipeline, one after the other, on one output path *)

MaxRuns == 2

\* a product whose title is a number
Raw2024 == Raw("2024", "$2", "* 4.9 / 5", "1", "L", "Women", "t1")

\* what extract_fashion_data returned in a run
ExtractionResults ==
    {<<RawTee>>, <<RawTee, RawTeeAgain>>, <<RawTee, RawHat>>, <<Raw2024>>,
     <<RawHat, Raw2024>>}

\* the first run is called: no file at the output path
InitRuns ==
    /\ pc = "run"
    /\ file = None
    /\ backups = <<>>
    /\ sink_log = <<>>
    /\ raw_data = <<>>
    /\ transformed_df = <<>>
    /\ mode = "overwrite"
    /\ result = None
    /\ max_pages = 0
    /\ extraction_timestamp = Str("t1")
    /\ page = 0
    /\ fetch_log = <<>>
    /\ all_products = <<>>
    /\ exc = None
    /\ arg = None
    /\ ret = None

\* main.py:43-86, one run in which the extraction returned records: the
\* transformation and, when it leaves rows, the load
RunPipeline ==
    /\ pc = "run"
    /\ Len(sink_log) < MaxRuns
    /\ \E raw \in ExtractionResults, md \in Modes, io_ok \in BOOLEAN :
          LET df  == transform_fashion_data(raw)
              out == load_fashion_data(df, file, backups, md, io_ok)
          IN  /\ ProceedsToLoad(df)
              /\ raw_data' = raw
              /\ transformed_df' = df
              /\ mode' = md
              /\ file' = out.file
              /\ backups' = out.backups
              /\ result' = PyBool(out.ok)
              /\ sink_log' = Append(sink_log,
                     [df |-> df, mode |-> md, before |-> file, ok |-> out.ok])
    /\ UNCHANGED <<pc, max_pages, extraction_timestamp, page, fetch_log,
                   all_products, exc, arg, ret>>

NextRuns == RunPipeline

SpecRuns == InitRuns /\ [][NextRuns]_vars

\* every run so far returned True
AllRunsSucceeded == \A i \in 1..Len(sink_log) : sink_log[i].ok

\* C22: after successful runs on one output path, in any mix of the modes
\* and starting without a file, no two stored rows have the same key
\* (title, price, size, gender); an overwrite and an append to a missing
\* file store the run's deduplicated dataset as it is.
C22_StoredKeysUnique ==
    (AllRunsSucceeded /\ sink_log # <<>>) =>
        LET stored == RowsOfLines(file.lines)
            last   == sink_log[Len(sink_log)]
        IN  /\ \A i, j \in 1..Len(stored) :
                  i # j => RowKey(stored[i]) # RowKey(stored[j])
            /\ (last.mode = "overwrite" \/ IsNone(last.before))
                  => /\ file.lines = to_csv(last.df)
                     /\ UniqueKeys(last.df)

====
